---- MODULE Spec2Model ----
(***************************************************************************)
(* Authentication and session-trust subsystem of jrnl:                     *)
(*   src/src/auth/oidc.rs  AuthClient (pending-session store, login        *)
(*                         protocol, introspection cache)                  *)
(*   src/src/auth/mod.rs   login / callback handlers, AuthState cookie     *)
(*                         codec, request extractors                       *)
(*   src/src/auth/oauth.rs OAuth server metadata discovery                 *)
(*   src/src/main.rs       startup: AuthClient::new, then the server       *)
(* Requests run concurrently; a step of a request is one access to the     *)
(* shared maps together with the local computation around it, and a        *)
(* provider round trip separates two steps.                                *)
(***************************************************************************)
EXTENDS Integers, Sequences, FiniteSets, TLC

\* ------------------------------------------------------------------ bounds
\* The clock (unix seconds) runs 0..MaxTime.
MaxTime == 2
\* create_session is called at most MaxSessions times.
MaxSessions == 2

\* ------------------------------------------------------------ value domains
Reqs == {"r1", "r2"}
Tokens == {"t1", "t2"}
Subjects == {"u1", "u2"}
Usernames == {"alice"}
Expiries == {1, 2}
SessionNames == <<"s1", "s2", "s3", "s4">>
UnknownSession == "sX"
Groups == {"g1", "g2"}
Referers == {"https://app.example/notes/42"}

\* Option<T>: None is the empty tuple, Some(x) the one-element tuple.
None == <<>>
Some(x) == <<x>>
IsSome(o) == o # None
Unwrap(o) == o[1]

\* time::Duration values used for cookie lifetimes, in seconds.
DurationZero == 0
DurationMinute == 60
DurationDay == 86400
DurationWeek == 604800
PendingMinutes == 5

\* const REQUIRE_HTTPS: bool = false;
REQUIRE_HTTPS == FALSE
AUTH_COOKIE == "auth"
USER_COOKIE == "user"
REDIRECT_COOKIE == "redirectURL"
CookieNames == {AUTH_COOKIE, USER_COOKIE, REDIRECT_COOKIE}

\* ------------------------------------------------------------ AuthState
\* enum AuthState { Pending(AuthSession), Authenticated(AccessToken),
\*                  #[serde(other)] Unauthenticated }
Pending(s) == <<"Pending", s>>
Authenticated(t) == <<"Authenticated", t>>
Unauthenticated == <<"Unauthenticated">>
IsPending(st) == st[1] = "Pending"
IsAuthenticated(st) == st[1] = "Authenticated"

\* (an untagged encoding: the payload alone)
to_string_untagged(st) == <<st[Len(st)]>>
\* JSON text is a sequence of lexical tokens: the punctuation "{", ":", "}"
\* and string literals.  serde_json::to_string(&AuthState): a newtype variant
\* is written {"Variant":"payload"}, the unit variant as the string
\* "Unauthenticated".
to_string(st) ==
  IF Len(st) = 2 THEN <<"{", st[1], ":", st[2], "}">> ELSE <<st[1]>>

\* a decoder that takes any tag with a string payload for a variant
from_str_any_tag(text) ==
  IF Len(text) = 5 /\ text[1] = "{" THEN Some(<<text[2], text[4]>>)
  ELSE IF Len(text) = 1 THEN Some(Unauthenticated) ELSE None
\* serde_json::from_str::<AuthState>: Some(state) for Ok, None for Err.
\* A lone string names a unit variant: the newtype variants reject it, every
\* other name falls to the #[serde(other)] variant.  A one-entry object names
\* a variant with a payload: only the newtype variants accept a string payload.
from_str(text) ==
  IF Len(text) = 1 /\ text[1] \notin {"{", ":", "}"}
  THEN IF text[1] \in {"Pending", "Authenticated"} THEN None
       ELSE Some(Unauthenticated)
  ELSE IF /\ Len(text) = 5
          /\ text[1] = "{" /\ text[3] = ":" /\ text[5] = "}"
          /\ text[2] \notin {"{", ":", "}"} /\ text[4] \notin {"{", ":", "}"}
       THEN IF text[2] \in {"Pending", "Authenticated"}
            THEN Some(<<text[2], text[4]>>)
            ELSE None
       ELSE None

\* ------------------------------------------------------------ cookies
\* A cookie received in the Cookie header has a value and no attributes.
HeaderCookie(v) ==
  [value |-> v, max_age |-> None, same_site |-> "unset", http_only |-> FALSE,
   secure |-> FALSE, path |-> "unset"]

\* CookieJar: the cookies it holds (name -> cookie) and the names changed
\* since it was read from the request, which the response sends as Set-Cookie.
EmptyJar == [cookies |-> <<>>, delta |-> {}]
JarHas(jar, name) == name \in DOMAIN jar.cookies
JarAdd(jar, name, cookie) ==
  [cookies |-> [n \in DOMAIN jar.cookies \cup {name} |->
                  IF n = name THEN cookie ELSE jar.cookies[n]],
   delta |-> jar.delta \cup {name}]
\* (only cookies read from the request are removed: the removal is sent)
JarRemove(jar, name) ==
  [cookies |-> [n \in DOMAIN jar.cookies \ {name} |-> jar.cookies[n]],
   delta |-> IF JarHas(jar, name) THEN jar.delta \cup {name} ELSE jar.delta]

\* AuthState::from_jar
from_jar(jar) ==
  IF ~JarHas(jar, AUTH_COOKIE) THEN Unauthenticated
  ELSE LET parsed == from_str(jar.cookies[AUTH_COOKIE].value)
       IN IF IsSome(parsed) THEN Unwrap(parsed) ELSE Unauthenticated

\* (one lifetime for every state)
validity_period_flat(st) == DurationMinute * PendingMinutes
\* AuthState::validity_period
validity_period(st) ==
  IF IsPending(st) THEN DurationMinute * PendingMinutes
  ELSE IF IsAuthenticated(st) THEN DurationDay
  ELSE DurationZero

\* AuthState::write_to_jar
write_to_jar(st, jar) ==
  LET same_site == IF IsPending(st) THEN "Lax" ELSE "Strict"
      cookie == [value |-> to_string(st), max_age |-> Some(validity_period(st)),
                 same_site |-> same_site, http_only |-> TRUE,
                 secure |-> REQUIRE_HTTPS, path |-> "/"]
  IN JarAdd(jar, AUTH_COOKIE, cookie)

\* Auth cookie values a client can send: the encodings of the three states
\* and texts that are not such an encoding.
SessionStrings == {SessionNames[i] : i \in 1..MaxSessions} \cup {UnknownSession}
Malformed ==
  { <<"Pending">>, <<"Logout">>, <<"{", "Authenticated">>,
    <<"{", "Unauthenticated", ":", "t1", "}">>, <<"{", "Admin", ":", "t1", "}">> }
AuthCookieValues ==
  {to_string(Pending(s)) : s \in SessionStrings}
    \cup {to_string(Authenticated(t)) : t \in Tokens}
    \cup {to_string(Unauthenticated)} \cup Malformed
\* The jar of an incoming request: no auth cookie, or one of those values.
RequestJar(v) ==
  IF v = None THEN EmptyJar
  ELSE [cookies |-> [n \in {AUTH_COOKIE} |-> HeaderCookie(Unwrap(v))], delta |-> {}]
AuthCookieInputs == {None} \cup {Some(v) : v \in AuthCookieValues}

\* CsrfToken::new_random, Nonce::new_random, PkceCodeChallenge::new_random_sha256:
\* fresh secrets, one of each per session; those of UnknownSession are values
\* the server never generated.
CsrfOf(session) == <<"csrf", session>>
NonceOf(session) == <<"nonce", session>>
PkceOf(session) == <<"verifier", session>>
Csrfs == {CsrfOf(s) : s \in SessionStrings}
Nonces == {NonceOf(s) : s \in SessionStrings}

\* ------------------------------------------------------------ program state
VARIABLES
  now,                  \* OffsetDateTime::now_utc().unix_timestamp()
  state,                \* AuthClient.state: session id -> (csrf, nonce, pkce verifier)
  issued,               \* number of session ids AuthSession::new_random has produced
  introspection_cache,  \* AuthClient.introspection_cache: token secret -> AuthenticatedUser
  cachePoisoned,        \* the RwLock of introspection_cache is poisoned
  config,               \* AuthConfig.required_groups and the provider metadata in use
  req,                  \* the requests in flight: handler, position, locals
  obtained,             \* session id -> number of authenticate calls that got its secrets
  verified,             \* access tokens whose hash authenticate found bound to an ID token
  browser,              \* the cookies a user agent holds: <<name, path>> -> value
  main,                 \* fn main: position, issuer URL, discovery requests sent, outcome
  answered              \* token secret -> the provider response whose user was inserted last

vars == <<now, state, issued, introspection_cache, cachePoisoned, config, req,
          obtained, verified, browser, main, answered>>

Idle == [kind |-> "idle"]

\* ------------------------------------------------------------ startup
\* Result<T, E>
Ok(x) == <<"Ok", x>>
Err(e) == <<"Err", e>>
IsOk(res) == res[1] = "Ok"

\* URL text is a sequence of pieces whose concatenation is the text: a scheme
\* name with its colon, "/", "//", a space, and words (runs of letters, digits,
\* "." and "-").
SchemePieces == {"https:", "urn:"}
SpecialSchemes == {"https:"}
\* The text of a scheme piece before its colon.
SchemeName(piece) == IF piece = "https:" THEN "https" ELSE "urn"
\* Words that do not begin with a letter.
DotWords == {".well-known"}
IsWord(piece) == piece \notin SchemePieces \cup {"/", "//", " "}
\* The same text with every "//" written as two "/".
RECURSIVE Expand(_)
Expand(text) ==
  IF text = <<>> THEN <<>>
  ELSE IF Head(text) = "//" THEN <<"/", "/">> \o Expand(Tail(text))
  ELSE <<Head(text)>> \o Expand(Tail(text))
\* Url::parse first strips leading and trailing spaces.
RECURSIVE TrimStart(_)
TrimStart(text) ==
  IF text # <<>> /\ Head(text) = " " THEN TrimStart(Tail(text)) ELSE text
RECURSIVE TrimEnd(_)
TrimEnd(text) ==
  IF text # <<>> /\ text[Len(text)] = " "
  THEN TrimEnd(SubSeq(text, 1, Len(text) - 1)) ELSE text
\* The pieces of text before its first "/".
RECURSIVE UpToSlash(_)
UpToSlash(text) ==
  IF text = <<>> \/ Head(text) = "/" THEN <<>>
  ELSE <<Head(text)>> \o UpToSlash(Tail(text))
\* text without its leading "/"s.
RECURSIVE DropSlashes(_)
DropSlashes(text) ==
  IF text # <<>> /\ Head(text) = "/" THEN DropSlashes(Tail(text)) ELSE text
\* The position of the first scheme piece of text, 0 if it has none.
FirstColon(text) ==
  IF \E i \in 1..Len(text) : text[i] \in SchemePieces
  THEN CHOOSE i \in 1..Len(text) :
         /\ text[i] \in SchemePieces
         /\ \A j \in 1..(i - 1) : text[j] \notin SchemePieces
  ELSE 0
\* A path as serialized: a space is written %20.
RECURSIVE EscapePath(_)
EscapePath(path) ==
  IF path = <<>> THEN <<>>
  ELSE <<IF Head(path) = " " THEN "%20" ELSE Head(path)>> \o EscapePath(Tail(path))
\* Host and port of an authority: the host ends at the first colon and what
\* follows is the port, digits only.  A space is no host character; only a
\* special scheme needs a host.
ParseAuthority(authority, special) ==
  LET c == FirstColon(authority)
      host == IF c = 0 THEN authority
              ELSE SubSeq(authority, 1, c - 1) \o <<SchemeName(authority[c])>>
      port == IF c = 0 THEN <<>> ELSE SubSeq(authority, c + 1, Len(authority))
  IN IF special /\ host = <<>> THEN Err("EmptyHost")
     ELSE IF \E i \in 1..Len(host) : host[i] = " "
     THEN Err(IF special THEN "IdnaError" ELSE "InvalidDomainCharacter")
     ELSE IF port # <<>> THEN Err("InvalidPort")
     ELSE Ok(host)
\* Url::parse: Ok(the URL as serialized) or Err(ParseError).  The scheme is
\* the text up to the first colon, letters first; without one the text is
\* relative.  After a special scheme any number of slashes leads to the
\* authority, and an empty path is serialized as "/".  After another scheme
\* "//" leads to an authority, "/" to a path, anything else is an opaque path,
\* kept as it is.
UrlParse(text) ==
  LET t == Expand(TrimEnd(TrimStart(text)))
      k == FirstColon(t)
  IN IF \/ k = 0
        \/ \E i \in 1..(k - 1) : ~IsWord(t[i])
        \/ t[1] \in DotWords
     THEN Err("RelativeUrlWithoutBase")
     ELSE
       LET scheme == SubSeq(t, 1, k)
           special == k = 1 /\ t[1] \in SpecialSchemes
           rest == SubSeq(t, k + 1, Len(t))
           slashed == Len(rest) >= 2 /\ rest[1] = "/" /\ rest[2] = "/"
           after == IF special THEN DropSlashes(rest) ELSE SubSeq(rest, 3, Len(rest))
           authority == UpToSlash(after)
           path == SubSeq(after, Len(authority) + 1, Len(after))
           host == ParseAuthority(authority, special)
       IN IF special \/ slashed
          THEN IF ~IsOk(host) THEN host
               ELSE Ok(scheme \o <<"//">> \o host[2] \o
                       (IF special /\ path = <<>> THEN <<"/">> ELSE EscapePath(path)))
          ELSE IF rest # <<>> /\ rest[1] = "/" THEN Ok(scheme \o EscapePath(rest))
          ELSE Ok(scheme \o rest)

\* Texts the issuer may be configured with: with and without trailing slash,
\* with a path, with a trailing space, not hierarchical, and without scheme.
IssuerTexts ==
  { <<"https:", "//", "idp.example">>,
    <<"https:", "//", "idp.example", "/">>,
    <<"https:", "//", "idp.example", "/", "tenant", "/">>,
    <<"https:", "//", "idp.example", " ">>,
    <<"urn:", "idp">>,
    <<"idp.example">> }
\* IssuerUrl::new(..).expect(..): the issuer is a text that Url::parse
\* accepts; the IssuerUrl keeps the text as given.
Issuers == {text \in IssuerTexts : IsOk(UrlParse(text))}
EndsWithSlash(issuer) == issuer # <<>> /\ issuer[Len(issuer)] \in {"/", "//"}
OAUTH_CONFIG_URL_SUFFIX == <<".well-known", "/", "oauth-authorization-server">>
\* IssuerUrl::join: the suffix is appended to the issuer text, after a "/"
\* unless the text ends in one, and the result is parsed as a URL.
join(issuer, suffix) ==
  UrlParse(IF EndsWithSlash(issuer) THEN issuer \o suffix
           ELSE issuer \o <<"/">> \o suffix)
\* What an HTTP GET of a discovery document can give: a transport error, or a
\* response with a status and a body.  A body is not JSON, or a JSON object
\* with an issuer and the endpoints the document type requires (absent: None).
OAuthBodies ==
  {[json |-> FALSE]} \cup
  [json : {TRUE}, issuer : Issuers,
   introspection_endpoint : {None, Some("https://idp.example/introspect"),
                             Some("https://idp.example/oauth/introspect")},
   revocation_endpoint : {None, Some("https://idp.example/revoke")}]
\* The OIDC discovery document: of its required members (issuer,
\* authorization_endpoint, jwks_uri, the supported response types, subject
\* types and signing algorithms) the issuer and jwks_uri stand for all.
OidcBodies ==
  {[json |-> FALSE]} \cup
  [json : {TRUE}, issuer : Issuers, jwks_uri : {None, Some("https://idp.example/jwks")},
   userinfo_endpoint : BOOLEAN]
\* The provider's key set document: a body is not JSON, or a JSON key set.
JwksBodies == [json : BOOLEAN]
StatusCodes == {200, 404}
HttpResponses(bodies) ==
  {[ok |-> FALSE]} \cup [ok : {TRUE}, status_code : StatusCodes, body : bodies]

\* serde: OAuthProviderMetadata { issuer, introspection_endpoint,
\* revocation_endpoint }, all required.
ParsesAsOAuthMetadata(body) ==
  body.json /\ IsSome(body.introspection_endpoint) /\ IsSome(body.revocation_endpoint)
\* (the issuer of the document taken on trust)
discovery_response_unvalidated(issuer_url, http) ==
  IF ~http.ok THEN Err("Request")
  ELSE IF http.status_code # 200 THEN Err("Response")
  ELSE IF ~ParsesAsOAuthMetadata(http.body) THEN Err("Parse")
  ELSE Ok(http.body)
\* OAuthProviderMetadata::discover_async after the request:
\* map_err(DiscoveryError::Request), then discovery_response.
discovery_response(issuer_url, http) ==
  IF ~http.ok THEN Err("Request")
  ELSE IF http.status_code # 200 THEN Err("Response")
  ELSE IF ~ParsesAsOAuthMetadata(http.body) THEN Err("Parse")
  ELSE IF http.body.issuer # issuer_url THEN Err("Validation")
  ELSE Ok(http.body)
\* CoreProviderMetadata::discover_async (openidconnect) after the request: the
\* same checks on the OIDC discovery document.
oidc_discovery_response(issuer_url, http) ==
  IF ~http.ok THEN Err("Request")
  ELSE IF http.status_code # 200 THEN Err("Response")
  ELSE IF ~http.body.json \/ ~IsSome(http.body.jwks_uri) THEN Err("Parse")
  ELSE IF http.body.issuer # issuer_url THEN Err("Validation")
  ELSE Ok(http.body)
\* JsonWebKeySet::fetch_async (openidconnect) after the request, called by
\* CoreProviderMetadata::discover_async with the jwks_uri of the document: a
\* transport error, a status other than 200 and a body that does not
\* deserialize each give their DiscoveryError.
fetch_async(http) ==
  IF ~http.ok THEN Err("Request")
  ELSE IF http.status_code # 200 THEN Err("Response")
  ELSE IF ~http.body.json THEN Err("Parse")
  ELSE Ok(http.body)

\* What a discovery answer was, seen from the provider's side: "transport"
\* (no response), "status" (not 200), "malformed" (not JSON, or a required
\* member missing), "mismatch" (another issuer than the configured one), "good".
DocKind(issuer_url, http) ==
  IF ~http.ok THEN "transport"
  ELSE IF http.status_code # 200 THEN "status"
  ELSE IF ~http.body.json THEN "malformed"
  ELSE IF /\ "introspection_endpoint" \in DOMAIN http.body
          /\ None \in {http.body.introspection_endpoint, http.body.revocation_endpoint}
       THEN "malformed"
  ELSE IF "jwks_uri" \in DOMAIN http.body /\ http.body.jwks_uri = None THEN "malformed"
  ELSE IF http.body.issuer # issuer_url THEN "mismatch"
  ELSE "good"

\* fn main at its start, and once axum::Server serves.
NoRequests == [oauth |-> 0, oidc |-> 0, jwks |-> 0]
\* auth_client is None while AuthClient::new runs, then its Result; the client
\* carries the introspection and revocation URIs of the OAuth metadata.
MainStart(issuer_url) ==
  [pc |-> "start", issuer_url |-> issuer_url, sent |-> NoRequests,
   docs |-> [oauth |-> "none", oidc |-> "none"], discovery_url |-> None,
   oauth_metadata |-> None, auth_client |-> None]
AuthClientOf(oauth_metadata) ==
  [introspection_uri |-> Unwrap(oauth_metadata.introspection_endpoint),
   revocation_uri |-> Unwrap(oauth_metadata.revocation_endpoint)]
MainServing ==
  [pc |-> "serving", issuer_url |-> <<"https:", "//", "idp.example">>,
   sent |-> [oauth |-> 1, oidc |-> 1, jwks |-> 1]]
\* Handlers run once the server is bound.
Serving == main.pc = "serving"

\* ------------------------------------------------------------ locks
\* The guards of AuthClient's locks: "state" for the Mutex of the
\* pending-session store, "cache.read" and "cache.write" for the RwLock of the
\* introspection cache.  A request holds a guard from the step in which
\* lock(), read() or write() returns to the step in which the guard is dropped.
\* (every guard bound to a variable that lives to the end of the function)
GuardsAfterStatementBound(held, temporaries) == held
\* The guards left when a statement ends: those the statement took in a
\* temporary are dropped.  authenticate takes the Mutex in a temporary of the
\* `let` statement that removes the entry, create_session in the statement
\* that inserts; introspect takes the read lock in a temporary of the
\* `if let` statement that ends before the request is built.
GuardsAfterStatement(held, temporaries) == held \ temporaries
\* The guards request o holds.
Holds(o) == IF "holds" \in DOMAIN req[o] THEN req[o].holds ELSE {}
\* Mutex::lock, RwLock::read, RwLock::write of request r return (instead of
\* blocking) when no other request holds a conflicting guard.
MutexFree(r) == \A o \in Reqs \ {r} : "state" \notin Holds(o)
CacheReadable(r) == \A o \in Reqs \ {r} : "cache.write" \notin Holds(o)
CacheWritable(r) ==
  \A o \in Reqs \ {r} : Holds(o) \cap {"cache.read", "cache.write"} = {}

\* ------------------------------------------------------------ token trust cache
\* struct AuthenticatedUser { expiry, subject, username }
AuthenticatedUser(expiry, subject, username) ==
  [expiry |-> expiry, subject |-> subject, username |-> username]

\* AuthenticatedUser::is_valid, at clock reading t
is_valid(user, t) == t < user.expiry

\* HashMap::get(..).cloned()
CacheGet(cache, token) ==
  IF token \in DOMAIN cache THEN Some(cache[token]) ELSE None

\* (an insert that keeps the subject of the entry it replaces)
CacheInsertMerging(cache, token, user) ==
  [k \in DOMAIN cache \cup {token} |->
     IF k # token THEN cache[k]
     ELSE IF token \in DOMAIN cache
          THEN [user EXCEPT !.subject = cache[token].subject]
          ELSE user]
\* HashMap::insert
CacheInsert(cache, token, user) ==
  [k \in DOMAIN cache \cup {token} |-> IF k = token THEN user ELSE cache[k]]

\* What the introspection endpoint can answer: a transport failure, or a
\* TokenIntrospectionResponse {active, sub, username, exp} whose sub, username
\* and exp are optional.
IntrospectionResponses ==
  {[ok |-> FALSE]} \cup
  [ok : {TRUE}, active : BOOLEAN,
   sub : {None} \cup {Some(u) : u \in Subjects},
   username : {None} \cup {Some(n) : n \in Usernames},
   exp : {None} \cup {Some(e) : e \in Expiries}]

\* introspect, first part: the cached user on a hit that is still valid,
\* None when the provider has to be asked.
CacheLookup(cache, token, t) ==
  LET data == CacheGet(cache, token)
  IN IF IsSome(data) /\ is_valid(Unwrap(data), t) THEN data ELSE None

\* introspect, the closure applied to an Ok response under the write lock.
\* The user is stored when the token is active and subject and username are
\* present; r.exp().unwrap() panics when the expiry is missing.
ResponseStores(r) == r.active /\ IsSome(r.sub) /\ IsSome(r.username)
ResponsePanics(r) == ResponseStores(r) /\ ~IsSome(r.exp)
\* (a cache that evicts the entry of a token the provider no longer vouches for)
CacheAfterResponseEvicting(cache, token, r) ==
  IF ResponseStores(r)
  THEN CacheInsert(cache, token,
         AuthenticatedUser(Unwrap(r.exp), Unwrap(r.sub), Unwrap(r.username)))
  ELSE [k \in DOMAIN cache \ {token} |-> cache[k]]
CacheAfterResponse(cache, token, r) ==
  IF ResponseStores(r)
  THEN CacheInsert(cache, token,
         AuthenticatedUser(Unwrap(r.exp), Unwrap(r.sub), Unwrap(r.username)))
  ELSE cache
\* The response behind each entry: the closure inserts under token.secret(),
\* the token of the call the response r answers.
AnsweredAfter(log, token, r) ==
  IF ResponseStores(r)
  THEN [k \in DOMAIN log \cup {token} |-> IF k = token THEN r ELSE log[k]]
  ELSE log
\* cache.get(token.secret()).cloned(), read after the insert
ResponseResult(cache, token, r) == CacheGet(CacheAfterResponse(cache, token, r), token)

\* unwrap_or_default() replaced by a fall-back to the cached entry (fail-open)
TransportFailureResultCached(cache, token) == CacheGet(cache, token)
\* introspect on a transport error: Result::map skips the closure and
\* unwrap_or_default() gives None.
TransportFailureResult(cache, token) == None

\* The kinds of answer of the introspection endpoint.
RespKind(r) ==
  IF ~r.ok THEN "error"
  ELSE IF ~r.active THEN "inactive"
  ELSE IF r.sub = None \/ r.username = None THEN "incomplete"
  ELSE IF r.exp = None THEN "no_expiry"
  ELSE "active"

\* The record kept of one introspect call: the provider requests it sent, the
\* kind of answer it got, what it returned.
NewCall ==
  [sent |-> 0, resp |-> "none", returned |-> FALSE, result |-> None]

\* The extractor's continuation after introspect returns `result`:
\* AuthState::from_request_parts made call 1 (None downgrades the state to
\* Unauthenticated, which AuthenticatedUser::from_request_parts rejects),
\* AuthenticatedUser::from_request_parts makes call 2 and returns its result
\* ok_or(UNAUTHORIZED).
AfterIntrospect(rec, call, result) ==
  IF ~IsSome(result)
  THEN [rec EXCEPT !.pc = "done", !.call = call, !.outcome = <<"unauthorized">>,
                   !.auth = IF rec.nth = 1 THEN Unauthenticated ELSE rec.auth]
  ELSE IF rec.nth = 1
       THEN [rec EXCEPT !.pc = "check", !.nth = 2, !.call = call]
       ELSE [rec EXCEPT !.pc = "done", !.call = call,
                        !.outcome = <<"ok", Unwrap(result)>>]

\* A protected route is requested: the AuthenticatedUser extractor decodes the
\* auth cookie; any state but Authenticated is rejected at once.
ExtractStart(r, v) ==
  /\ Serving
  /\ req[r].kind = "idle"
  /\ LET st == from_jar(RequestJar(v))
     IN req' = [req EXCEPT ![r] =
          IF IsAuthenticated(st)
          THEN [kind |-> "extract", pc |-> "check", cookie |-> v, auth |-> st,
                nth |-> 1, call |-> NewCall, outcome |-> <<"running">>, holds |-> {}]
          ELSE [kind |-> "extract", pc |-> "done", cookie |-> v, auth |-> st,
                nth |-> 0, call |-> NewCall, outcome |-> <<"unauthorized">>, holds |-> {}]]
  /\ UNCHANGED <<answered, main, browser, now, state, issued, introspection_cache, cachePoisoned, config,
                 obtained, verified>>

\* introspect under the read guard: cache lookup and is_valid; the `if let`
\* statement ends, then the provider request is sent.  rec is the request as
\* it called read().
IntrospectLookup(r, rec) ==
  /\ LET token == rec.auth[2]
         hit == CacheLookup(introspection_cache, token, now)
         call == NewCall
     IN req' = [req EXCEPT ![r] =
          IF cachePoisoned
          THEN [rec EXCEPT !.pc = "panicked", !.call = NewCall]
          ELSE IF IsSome(hit)
          THEN AfterIntrospect(rec,
                 [call EXCEPT !.returned = TRUE, !.result = hit],
                 hit)
          ELSE [rec EXCEPT !.pc = "await", !.call = [call EXCEPT !.sent = 1],
                           !.holds = GuardsAfterStatement({"cache.read"}, {"cache.read"})]]
  /\ UNCHANGED <<answered, main, browser, now, state, issued, introspection_cache, cachePoisoned, config,
                 obtained, verified>>
\* introspect up to the provider request: read lock, cache lookup, is_valid.
IntrospectCheck(r) ==
  /\ req[r].kind = "extract" /\ req[r].pc = "check"
  /\ CacheReadable(r)
  /\ IntrospectLookup(r, req[r])
\* The same in two steps: read() returns the guard, then the lookup runs.
IntrospectReadLock(r) ==
  /\ req[r].kind = "extract" /\ req[r].pc = "check"
  /\ CacheReadable(r)
  /\ req' = [req EXCEPT ![r] =
       [kind |-> "extract", pc |-> "reading", holds |-> {"cache.read"}, rec |-> req[r]]]
  /\ UNCHANGED <<answered, main, browser, now, state, issued, introspection_cache,
                 cachePoisoned, config, obtained, verified>>
IntrospectRead(r) ==
  /\ req[r].kind = "extract" /\ req[r].pc = "reading"
  /\ IntrospectLookup(r, req[r].rec)

\* introspect once the provider request is answered: a transport error gives
\* None; for an Ok response the closure runs under the write guard, which is
\* dropped as the closure returns.  awaiting is the request as it awaited.
IntrospectAnswer(r, awaiting, resp) ==
  /\ LET rec == [awaiting EXCEPT !.holds = {}]
         token == rec.auth[2]
         call == [rec.call EXCEPT !.resp = RespKind(resp)]
     IN IF ~resp.ok
        THEN LET result == TransportFailureResult(introspection_cache, token)
             IN /\ req' = [req EXCEPT ![r] = AfterIntrospect(rec,
                          [call EXCEPT !.returned = TRUE, !.result = result], result)]
                /\ UNCHANGED <<introspection_cache, cachePoisoned, answered>>
        ELSE IF cachePoisoned
        THEN /\ req' = [req EXCEPT ![r] = [rec EXCEPT !.pc = "panicked", !.call = call]]
             /\ UNCHANGED <<introspection_cache, cachePoisoned, answered>>
        ELSE IF ResponsePanics(resp)
        THEN /\ req' = [req EXCEPT ![r] = [rec EXCEPT !.pc = "panicked", !.call = call]]
             /\ cachePoisoned' = TRUE
             /\ UNCHANGED <<introspection_cache, answered>>
        ELSE LET result == ResponseResult(introspection_cache, token, resp)
             IN /\ introspection_cache' =
                     CacheAfterResponse(introspection_cache, token, resp)
                /\ req' = [req EXCEPT ![r] = AfterIntrospect(rec,
                     [call EXCEPT !.returned = TRUE, !.result = result],
                     result)]
                /\ answered' = AnsweredAfter(answered, token, resp)
                /\ UNCHANGED cachePoisoned
  /\ UNCHANGED <<main, browser, now, state, issued, config, obtained, verified>>
\* introspect after the provider request: a transport error gives None; an Ok
\* response is handled under the write lock.
IntrospectRespond(r, resp) ==
  /\ req[r].kind = "extract" /\ req[r].pc = "await"
  /\ resp.ok => CacheWritable(r)
  /\ IntrospectAnswer(r, req[r], resp)
\* The same in two steps for an Ok response: write() returns the guard, then
\* the closure runs.
IntrospectWriteLock(r, resp) ==
  /\ req[r].kind = "extract" /\ req[r].pc = "await"
  /\ resp.ok /\ CacheWritable(r)
  /\ req' = [req EXCEPT ![r] =
       [kind |-> "extract", pc |-> "writing", holds |-> {"cache.write"},
        rec |-> req[r], resp |-> resp]]
  /\ UNCHANGED <<answered, main, browser, now, state, issued, introspection_cache,
                 cachePoisoned, config, obtained, verified>>
IntrospectWrite(r) ==
  /\ req[r].kind = "extract" /\ req[r].pc = "writing"
  /\ IntrospectAnswer(r, req[r].rec, req[r].resp)

\* ------------------------------------------------------------ login protocol
\* The Referer header of a login request: absent, or present with bytes
\* HeaderValue::to_str accepts or rejects.
RefererInputs ==
  {None} \cup {Some([visible |-> TRUE, text |-> v]) : v \in Referers}
         \cup {Some([visible |-> FALSE, text |-> "bytes"])}
\* headers.get(REFERER).map(|h| h.to_str().ok()).flatten()
referrer(header) ==
  IF IsSome(header) /\ Unwrap(header).visible THEN Some(Unwrap(header).text) ELSE None

\* The redirect cookie login builds.
RedirectCookie(v) ==
  [value |-> <<v>>, max_age |-> Some(DurationMinute * PendingMinutes),
   same_site |-> "Lax", http_only |-> TRUE, secure |-> REQUIRE_HTTPS, path |-> "/"]

\* build_user_cookie: the standard claims of the user, serialized.
build_user_cookie(auth) ==
  [value |-> <<"{", "sub", ":", auth.user, "}">>, max_age |-> Some(DurationWeek),
   same_site |-> "Strict", http_only |-> FALSE, secure |-> REQUIRE_HTTPS, path |-> "/"]

\* (a store that keeps the latest login only)
StoreInsertSingle(store, session, entry) == [k \in {session} |-> entry]
\* HashMap::insert / HashMap::remove on the pending-session store
StoreInsert(store, session, entry) ==
  [k \in DOMAIN store \cup {session} |-> IF k = session THEN entry ELSE store[k]]
StoreGet(store, session) ==
  IF session \in DOMAIN store THEN Some(store[session]) ELSE None
\* remove leaving the entry in place (a lookup)
StoreAfterRemoveKeeps(store, session) == store
StoreAfterRemove(store, session) ==
  [k \in DOMAIN store \ {session} |-> store[k]]

\* AccessTokenHash::from_token: the hash the provider binds a token with.
HashOf(token) == <<"at_hash", token>>

\* What the token endpoint can answer to the code exchange: an error, or a
\* token response with an access token and possibly an ID token.  Of the ID
\* token: whether its signature and claims verify, the nonce, subject and
\* access-token hash it carries, and its signing algorithm ("none": unsigned,
\* "unsupported": no access-token hash can be computed with it).
IdTokens ==
  [sig_ok : BOOLEAN, nonce : Nonces, sub : Subjects,
   at_hash : {None} \cup {Some(HashOf(t)) : t \in Tokens},
   alg : {"RS256", "none", "unsupported"}]
ExchangeResponses ==
  {[ok |-> FALSE]} \cup
  [ok : {TRUE}, access_token : Tokens, id_token : {None} \cup {Some(i) : i \in IdTokens}]
\* What the user-info endpoint can answer.
UserInfoResponses ==
  {[ok |-> FALSE]} \cup [ok : {TRUE}, sub : Subjects, groups : SUBSET Groups]

\* the CSRF comparison left out
csrf_mismatch_ignored(csrf_state, expected) == FALSE
\* authenticate: csrf_state.secret() != expected_csrf_state.secret()
csrf_mismatch(csrf_state, expected) == csrf_state # expected

\* authenticate: id_token.claims(&verifier, &nonce) is Ok
claims_verify(id, nonce) == id.sig_ok /\ id.nonce = nonce

\* the access-token hash check skipped for every token
hash_check_skipped(id, access_token) == "absent"
\* authenticate, "Verify the access token hash": "absent" when the ID token
\* carries none, "match" when the recomputed hash equals it, else the failure.
hash_check(id, access_token) ==
  IF ~IsSome(id.at_hash) THEN "absent"
  ELSE IF id.alg = "none" THEN "no_alg"
  ELSE IF id.alg = "unsupported" THEN "no_hash"
  ELSE IF Unwrap(id.at_hash) # HashOf(access_token) THEN "mismatch"
  ELSE "match"

\* a group policy that is content with one required group
missing_group_any(required, groups) == required # {} /\ required \cap groups = {}
\* authenticate: required_groups.iter().find(|g| !groups.contains(g)) is Some
missing_group(required, groups) == \E g \in required : g \notin groups

\* authenticate from the token response up to the user-info request: the
\* reason of the failure, or "ok".
after_exchange(resp, nonce, cfg) ==
  IF ~resp.ok THEN "exchange failed"
  ELSE IF ~IsSome(resp.id_token) THEN "no id token"
  ELSE LET id == Unwrap(resp.id_token)
       IN IF ~claims_verify(id, nonce) THEN "id token invalid"
          ELSE IF hash_check(id, resp.access_token) \notin {"absent", "match"}
               THEN "hash " \o hash_check(id, resp.access_token)
          ELSE IF ~cfg.userinfo_endpoint THEN "no user info request"
          ELSE "ok"

\* authenticate from the user-info response on: the fetch fails on an error
\* and on claims of another subject than the ID token's.
after_userinfo(resp, sub, cfg) ==
  IF ~resp.ok \/ resp.sub # sub THEN "user info failed"
  ELSE IF missing_group(cfg.required_groups, resp.groups) THEN "missing group"
  ELSE "ok"

\* The conditions of a login as the responses show them, each "yes" or "no",
\* "unknown" while authenticate has not come to it.
NoFacts ==
  [exchange |-> "unknown", id_token |-> "unknown", id_valid |-> "unknown",
   hash |-> "unknown", userinfo |-> "unknown", groups |-> "unknown"]
YesNo(b) == IF b THEN "yes" ELSE "no"
ExchangeFacts(resp, nonce, cfg) ==
  IF ~resp.ok THEN [NoFacts EXCEPT !.exchange = "no"]
  ELSE IF resp.id_token = None THEN [NoFacts EXCEPT !.exchange = "yes", !.id_token = "no"]
  ELSE LET id == Unwrap(resp.id_token)
           valid == id.sig_ok /\ id.nonce = nonce
           hash == IF id.at_hash = None THEN "absent"
                   ELSE IF id.alg = "RS256" /\ id.at_hash = Some(HashOf(resp.access_token))
                        THEN "match" ELSE "no"
       IN IF ~valid
          THEN [NoFacts EXCEPT !.exchange = "yes", !.id_token = "yes", !.id_valid = "no"]
          ELSE [NoFacts EXCEPT !.exchange = "yes", !.id_token = "yes", !.id_valid = "yes",
                               !.hash = hash,
                               !.userinfo = IF hash # "no" /\ ~cfg.userinfo_endpoint
                                            THEN "no" ELSE "unknown"]
UserInfoFacts(facts, resp, sub, cfg) ==
  IF ~resp.ok \/ resp.sub # sub THEN [facts EXCEPT !.userinfo = "no"]
  ELSE [facts EXCEPT !.userinfo = "yes",
                     !.groups = YesNo(cfg.required_groups \subseteq resp.groups)]

\* callback, when authenticate gave None or the cookie is not Pending:
\* (jar, Redirect::to("./failed")) with the failure also clearing the auth cookie
callback_failed_clearing(jar) ==
  [jar |-> write_to_jar(Unauthenticated, jar), redirect |-> "./failed"]
\* the failure clearing the auth cookie only of a login that was pending
callback_failed_by_state(jar) ==
  IF IsPending(from_jar(jar))
  THEN [jar |-> write_to_jar(Unauthenticated, jar), redirect |-> "./failed"]
  ELSE [jar |-> jar, redirect |-> "./failed"]
\* callback, when authenticate gave None or the cookie is not Pending:
\* (jar, Redirect::to("./failed"))
callback_failed(jar) == [jar |-> jar, redirect |-> "./failed"]

\* callback, when authenticate gave Some(auth)
callback_succeeded(jar, auth) ==
  [jar |-> JarAdd(write_to_jar(Authenticated(auth.access_token), jar),
                  USER_COOKIE, build_user_cookie(auth)),
   redirect |-> "./success"]

\* login with the Mutex guard of create_session in hand: the fresh secrets
\* are inserted under a fresh session id and the guard is dropped; the Referer
\* becomes the redirect cookie, the session id the Pending cookie.
CreateSession(r, v, header) ==
  /\ LET session == SessionNames[issued + 1]
         jar0 == RequestJar(v)
         jar1 == IF IsSome(referrer(header))
                 THEN JarAdd(jar0, REDIRECT_COOKIE, RedirectCookie(Unwrap(referrer(header))))
                 ELSE jar0
     IN /\ state' = StoreInsert(state, session,
                      [csrf |-> CsrfOf(session), nonce |-> NonceOf(session),
                       pkce |-> PkceOf(session)])
        /\ issued' = issued + 1
        /\ req' = [req EXCEPT ![r] =
             [kind |-> "login", pc |-> "done", session |-> session,
              referrer |-> referrer(header),
              response |-> [jar |-> write_to_jar(Pending(session), jar1),
                            redirect |-> "authorize_url"]]]
  /\ UNCHANGED <<answered, main, browser, now, introspection_cache, cachePoisoned, config, obtained, verified>>
\* GET /login: create_session stores fresh secrets under a fresh session id,
\* the Referer becomes the redirect cookie, the session id the Pending cookie.
Login(r, v, header) ==
  /\ Serving
  /\ req[r].kind = "idle"
  /\ issued < MaxSessions
  /\ MutexFree(r)
  /\ CreateSession(r, v, header)
\* The same in two steps: lock() returns the guard, then the insert runs.
LoginLock(r, v, header) ==
  /\ Serving
  /\ req[r].kind = "idle"
  /\ issued < MaxSessions
  /\ MutexFree(r)
  /\ req' = [req EXCEPT ![r] =
       [kind |-> "login", pc |-> "locked", holds |-> {"state"},
        cookie |-> v, header |-> header]]
  /\ UNCHANGED <<answered, main, browser, now, state, issued, introspection_cache,
                 cachePoisoned, config, obtained, verified>>
LoginInsert(r) ==
  /\ req[r].kind = "login" /\ req[r].pc = "locked"
  /\ CreateSession(r, req[r].cookie, req[r].header)

\* callback up to the code exchange: the cookie is decoded; for Pending, with
\* the Mutex guard of authenticate in hand, the `let` statement removes the
\* session and ends, the CSRF state is compared, the exchange request is sent.
CallbackRun(r, v, csrf_state) ==
  /\ LET jar == RequestJar(v)
         st == from_jar(jar)
         base == [kind |-> "callback", pc |-> "done", cookie |-> v, auth |-> st,
                  csrf_state |-> None, found |-> None, facts |-> NoFacts,
                  sent |-> [exchange |-> 0, userinfo |-> 0], token |-> None,
                  sub |-> None, result |-> None, response |-> Some(callback_failed(jar)),
                  holds |-> {}]
     IN /\ IF ~IsPending(st)
           THEN /\ req' = [req EXCEPT ![r] = base]
                /\ UNCHANGED <<state, obtained>>
           ELSE LET session == st[2]
                    entry == StoreGet(state, session)
                IN /\ state' = StoreAfterRemove(state, session)
                   /\ obtained' = IF IsSome(entry)
                                  THEN [obtained EXCEPT ![session] = @ + 1] ELSE obtained
                   /\ req' = [req EXCEPT ![r] =
                        IF ~IsSome(entry) THEN base
                        ELSE IF csrf_mismatch(csrf_state, Unwrap(entry).csrf)
                        THEN [base EXCEPT !.found = entry, !.csrf_state = Some(csrf_state)]
                        ELSE [base EXCEPT !.found = entry, !.csrf_state = Some(csrf_state),
                                          !.pc = "await_exchange",
                                          !.sent.exchange = 1, !.response = None,
                                          !.holds =
                                             GuardsAfterStatement({"state"}, {"state"})]]
  /\ UNCHANGED <<answered, main, browser, now, issued, introspection_cache, cachePoisoned, config, verified>>
\* GET /callback up to the code exchange: decode the cookie; for Pending,
\* authenticate removes the session under the mutex and compares the CSRF
\* state before it sends the exchange request.
CallbackStart(r, v, csrf_state) ==
  /\ Serving
  /\ req[r].kind = "idle"
  /\ IsPending(from_jar(RequestJar(v))) => MutexFree(r)
  /\ CallbackRun(r, v, csrf_state)
\* The same in two steps for a Pending cookie: lock() returns the guard, then
\* the removal runs.
CallbackLock(r, v, csrf_state) ==
  /\ Serving
  /\ req[r].kind = "idle"
  /\ IsPending(from_jar(RequestJar(v))) /\ MutexFree(r)
  /\ req' = [req EXCEPT ![r] =
       [kind |-> "callback", pc |-> "locked", holds |-> {"state"},
        cookie |-> v, query |-> csrf_state]]
  /\ UNCHANGED <<answered, main, browser, now, state, issued, introspection_cache,
                 cachePoisoned, config, obtained, verified>>
CallbackRemove(r) ==
  /\ req[r].kind = "callback" /\ req[r].pc = "locked"
  /\ CallbackRun(r, req[r].cookie, req[r].query)

\* authenticate from the token response to the user-info request.
ExchangeRespond(r, resp) ==
  /\ req[r].kind = "callback" /\ req[r].pc = "await_exchange"
  /\ LET rec == req[r]
         nonce == Unwrap(rec.found).nonce
         why == after_exchange(resp, nonce, config)
         facts == ExchangeFacts(resp, nonce, config)
     IN /\ req' = [req EXCEPT ![r] =
             IF why # "ok"
             THEN [rec EXCEPT !.pc = "done", !.facts = facts, !.holds = {},
                              !.response = Some(callback_failed(RequestJar(rec.cookie)))]
             ELSE [rec EXCEPT !.pc = "await_userinfo", !.facts = facts,
                              !.sent.userinfo = 1,
                              !.token = Some(resp.access_token),
                              !.sub = Some(Unwrap(resp.id_token).sub)]]
        /\ verified' =
             IF /\ resp.ok /\ IsSome(resp.id_token)
                /\ claims_verify(Unwrap(resp.id_token), nonce)
                /\ hash_check(Unwrap(resp.id_token), resp.access_token) = "match"
             THEN verified \cup {resp.access_token} ELSE verified
  /\ UNCHANGED <<answered, main, browser, now, state, issued, introspection_cache, cachePoisoned, config, obtained>>

\* authenticate from the user-info response on, and the rest of callback.
UserInfoRespond(r, resp) ==
  /\ req[r].kind = "callback" /\ req[r].pc = "await_userinfo"
  /\ LET rec == [req[r] EXCEPT !.holds = {}]
         why == after_userinfo(resp, Unwrap(rec.sub), config)
         facts == UserInfoFacts(rec.facts, resp, Unwrap(rec.sub), config)
         auth == [access_token |-> Unwrap(rec.token), user |-> resp.sub]
     IN req' = [req EXCEPT ![r] =
          IF why # "ok"
          THEN [rec EXCEPT !.pc = "done", !.facts = facts, !.token = None, !.sub = None,
                           !.response = Some(callback_failed(RequestJar(rec.cookie)))]
          ELSE [rec EXCEPT !.pc = "done", !.facts = facts, !.result = Some(auth),
                           !.token = None, !.sub = None,
                           !.response =
                              Some(callback_succeeded(RequestJar(rec.cookie), auth))]]
  /\ UNCHANGED <<answered, main, browser, now, state, issued, introspection_cache, cachePoisoned, config,
                 obtained, verified>>

\* The jar of a request to /success: with or without the redirect cookie.
RedirectCookieInputs == {None} \cup {Some(<<v>>) : v \in Referers}
SuccessJar(c) ==
  IF c = None THEN EmptyJar
  ELSE [cookies |-> [n \in {REDIRECT_COOKIE} |-> HeaderCookie(Unwrap(c))], delta |-> {}]

\* GET /success: with a redirect cookie the page sends the browser to its
\* value and the cookie is removed; without one the page only reports success.
Success(r, c) ==
  /\ Serving
  /\ req[r].kind = "idle"
  /\ LET jar == SuccessJar(c)
     IN req' = [req EXCEPT ![r] =
          [kind |-> "success", pc |-> "done",
           response |->
             IF JarHas(jar, REDIRECT_COOKIE)
             THEN [jar |-> JarRemove(jar, REDIRECT_COOKIE),
                   body |-> <<"Login successful.", "window.location">>
                              \o jar.cookies[REDIRECT_COOKIE].value]
             ELSE [jar |-> jar, body |-> <<"Login successful.">>]]]
  /\ UNCHANGED <<answered, main, browser, now, state, issued, introspection_cache, cachePoisoned, config,
                 obtained, verified>>

\* GET /failed: 401 with a fixed text.
Failed(r) ==
  /\ Serving
  /\ req[r].kind = "idle"
  /\ req' = [req EXCEPT ![r] =
       [kind |-> "failed", pc |-> "done",
        response |-> [status |-> "401 Unauthorized",
                      body |-> <<"Login failed. See server logs for more details.">>]]]
  /\ UNCHANGED <<answered, main, browser, now, state, issued, introspection_cache, cachePoisoned, config,
                 obtained, verified>>

\* The response of a finished (or panicked) request has left the server.
Finish(r) ==
  /\ req[r].kind # "idle" /\ req[r].pc \in {"done", "panicked"}
  /\ req' = [req EXCEPT ![r] = Idle]
  /\ UNCHANGED <<answered, main, browser, now, state, issued, introspection_cache, cachePoisoned, config,
                 obtained, verified>>

\* The clock advances.
Tick ==
  /\ now < MaxTime
  /\ now' = now + 1
  /\ UNCHANGED <<answered, main, browser, state, issued, introspection_cache, cachePoisoned, config, req,
                 obtained, verified>>

\* AuthClient::new: both maps empty; the configuration is fixed from here on.
Init ==
  /\ now = 0
  /\ state = <<>>
  /\ issued = 0
  /\ introspection_cache = <<>>
  /\ cachePoisoned = FALSE
  /\ config \in [required_groups : SUBSET Groups, userinfo_endpoint : BOOLEAN]
  /\ req = [r \in Reqs |-> Idle]
  /\ obtained = [s \in SessionStrings |-> 0]
  /\ verified = {}
  /\ browser = <<>>
  /\ main = MainServing
  /\ answered = <<>>

\* Requests to protected routes only.
TrustInit == Init /\ config = [required_groups |-> {}, userinfo_endpoint |-> TRUE]
TrustNext ==
  \/ \E r \in Reqs, v \in AuthCookieInputs : ExtractStart(r, v)
  \/ \E r \in Reqs : IntrospectCheck(r)
  \/ \E r \in Reqs, resp \in IntrospectionResponses : IntrospectRespond(r, resp)
  \/ \E r \in Reqs : Finish(r)
  \/ Tick
SpecTrust == TrustInit /\ [][TrustNext]_vars

\* Logins and callbacks only (the Referer and the landing pages are part of
\* SpecBrowser).
LoginCookieInputs == {None, Some(to_string(Unauthenticated))}
LoginNext ==
  \/ \E r \in Reqs, v \in LoginCookieInputs : Login(r, v, None)
  \/ \E r \in Reqs, v \in AuthCookieInputs, csrf_state \in Csrfs :
        CallbackStart(r, v, csrf_state)
  \/ \E r \in Reqs, resp \in ExchangeResponses : ExchangeRespond(r, resp)
  \/ \E r \in Reqs, resp \in UserInfoResponses : UserInfoRespond(r, resp)
  \/ \E r \in Reqs : Finish(r)
LoginInit ==
  /\ Init
  /\ config \in [required_groups : {{}, Groups}, userinfo_endpoint : BOOLEAN]
SpecLogin == LoginInit /\ [][LoginNext]_vars

\* ------------------------------------------------------------ claims: trust
\* The token of an extractor request, and the steps in which one of its
\* introspect calls looks up the cache or returns.
TokenOf(r) == req[r].auth[2]
CheckStep(r) == req[r].kind = "extract" /\ req[r].pc = "check" /\ req'[r] # req[r]
ReturnStep(r) ==
  /\ req[r].kind = "extract" /\ req[r].pc \in {"check", "await"}
  /\ req'[r] # req[r] /\ req'[r].call.returned
ValidEntry(cache, token, t) == token \in DOMAIN cache /\ t < cache[token].expiry

\* C1: the AuthenticatedUser extractor yields a user only for a cookie that
\* decodes to Authenticated(token) and only when, as introspect returns, the
\* cache holds an entry of the token with now < expiry or the provider has just
\* reported the token active with subject and username; otherwise the request
\* is rejected as unauthorized.
C1_ExtractorYieldsOnlyTrusted ==
  [][\A r \in Reqs :
       (req'[r].kind = "extract" /\ req'[r].pc = "done" /\ req'[r] # req[r]) =>
         LET decoded == from_jar(RequestJar(req'[r].cookie))
             trusted ==
               /\ IsAuthenticated(decoded)
               /\ \/ ValidEntry(introspection_cache', decoded[2], now')
                  \/ req'[r].call.resp \in {"active"}
         IN IF trusted THEN req'[r].outcome[1] \in {"ok", "unauthorized"}
            ELSE req'[r].outcome = <<"unauthorized">>]_vars

\* C2: every Some(user) introspect returns satisfies now < user.expiry.
C2_NeverReturnsExpired ==
  [][\A r \in Reqs :
       (ReturnStep(r) /\ IsSome(req'[r].call.result)) =>
         now' < Unwrap(req'[r].call.result).expiry]_vars

\* C3: when the provider answers inactive, or active without subject or
\* username, introspect returns None and inserts nothing into the cache.
C3_InactiveYieldsNone ==
  [][\A r \in Reqs :
       (ReturnStep(r) /\ req'[r].call.resp \in {"inactive", "incomplete"}) =>
         /\ req'[r].call.result = None
         /\ introspection_cache' = introspection_cache]_vars

\* C9: the cache lookup of introspect returns the cached user, with no
\* provider request, exactly when an entry of the token exists with
\* now < expiry (strict); in every other case, now = expiry included, it sends
\* one introspection request.
C9_CacheServesExactlyValid ==
  [][\A r \in Reqs :
       CheckStep(r) =>
         IF ValidEntry(introspection_cache, TokenOf(r), now)
         THEN /\ req'[r].call.returned /\ req'[r].call.sent = 0
              /\ req'[r].call.result = Some(introspection_cache[TokenOf(r)])
         ELSE req'[r].pc = "await" /\ req'[r].call.sent = 1]_vars

\* C10: on a transport failure of the introspection request introspect
\* returns None and leaves the cache as it was, whatever the cache held.
C10_TransportFailureFailsClosed ==
  [][\A r \in Reqs :
       (ReturnStep(r) /\ req'[r].call.resp = "error") =>
         /\ req'[r].call.result = None
         /\ introspection_cache' = introspection_cache
         /\ req'[r].outcome = <<"unauthorized">>]_vars
\* A call that met a transport failure while the cache held an expired entry
\* of its token.
C10_Witness ==
  \E r \in Reqs :
    /\ req[r].kind = "extract" /\ req[r].call.returned /\ req[r].call.resp = "error"
    /\ req[r].outcome = <<"unauthorized">>
    /\ LET decoded == from_jar(RequestJar(req[r].cookie))
       IN /\ decoded[2] \in DOMAIN introspection_cache
          /\ introspection_cache[decoded[2]].expiry <= now

\* ------------------------------------------------------------ claims: login
IsCallback(r) == req[r].kind = "callback"
CallbackDone(r) == IsCallback(r) /\ req[r].pc = "done"
CsrfEqual(r) == Unwrap(req[r].csrf_state) = Unwrap(req[r].found).csrf
\* The auth cookie a response sets, if it sets one.
SetsAuthCookie(resp) == AUTH_COOKIE \in resp.jar.delta

\* C4: the secrets of a pending-session id are obtained by at most one
\* authenticate call, and a call that does not obtain them returns None
\* without any provider request.
C4_SessionConsumedOnce ==
  /\ \A s \in SessionStrings : obtained[s] <= 1
  /\ \A r \in Reqs :
       (IsCallback(r) /\ IsPending(req[r].auth) /\ req[r].found = None) =>
         /\ req[r].pc = "done" /\ req[r].result = None
         /\ req[r].sent = [exchange |-> 0, userinfo |-> 0]
\* Two overlapping callbacks with the same session id: one holds the secrets
\* and waits for the code exchange, the other has returned None.
C4_Witness ==
  \E r1, r2 \in Reqs :
    /\ r1 # r2 /\ IsCallback(r1) /\ IsCallback(r2)
    /\ req[r1].pc = "await_exchange" /\ req[r2].auth = req[r1].auth
    /\ req[r2].pc = "done" /\ req[r2].found = None /\ req[r2].result = None
    /\ obtained[req[r1].auth[2]] = 1

\* C5: a callback whose CSRF state differs from the stored one returns None
\* and sends neither the exchange request nor any other provider request.
C5_CsrfBeforeExchange ==
  \A r \in Reqs :
    (IsCallback(r) /\ IsSome(req[r].found) /\ ~CsrfEqual(r)) =>
      /\ req[r].pc = "done" /\ req[r].result = None
      /\ req[r].sent = [exchange |-> 0, userinfo |-> 0]
C5_Witness ==
  \E r \in Reqs : CallbackDone(r) /\ IsSome(req[r].found) /\ ~CsrfEqual(r)

\* C6: on an existing pending session authenticate returns Some(AuthData)
\* exactly when the CSRF state matches, the exchange succeeds, an ID token is
\* present and verifies against the stored nonce, the access-token hash is
\* absent or matches, the user-info fetch succeeds and every required group is
\* among the user's groups; a failed call has one of these conditions violated.
AllConditionsHold(r) ==
  /\ CsrfEqual(r)
  /\ req[r].facts.exchange = "yes" /\ req[r].facts.id_token = "yes"
  /\ req[r].facts.id_valid = "yes" /\ req[r].facts.hash \in {"absent", "match"}
  /\ req[r].facts.userinfo = "yes" /\ req[r].facts.groups = "yes"
SomeConditionViolated(r) ==
  \/ ~CsrfEqual(r)
  \/ \E f \in DOMAIN req[r].facts : req[r].facts[f] = "no"
C6_AuthenticateIffAllChecks ==
  \A r \in Reqs :
    (CallbackDone(r) /\ IsSome(req[r].found)) =>
      /\ IsSome(req[r].result) <=> AllConditionsHold(r)
      /\ ~IsSome(req[r].result) <=> SomeConditionViolated(r)
\* A login that succeeded under a group policy with an ID token that carries
\* no access-token hash.
C6_Witness ==
  \E r \in Reqs :
    /\ CallbackDone(r) /\ IsSome(req[r].result)
    /\ req[r].facts.hash = "absent" /\ config.required_groups = Groups

\* C7 as stated: a failed callback emits the auth cookie in the
\* Unauthenticated state with zero lifetime.
C7_FailureClearsCookie ==
  \A r \in Reqs :
    (CallbackDone(r) /\ ~IsSome(req[r].result)) =>
      LET resp == Unwrap(req[r].response)
      IN /\ SetsAuthCookie(resp)
         /\ from_jar(resp.jar) = Unauthenticated
         /\ resp.jar.cookies[AUTH_COOKIE].max_age = Some(DurationZero)
\* C7 as amended: a failed callback redirects to ./failed and sets no cookie;
\* the jar goes back as it was received, so the state the auth cookie decodes
\* to stays what it was (Pending stays Pending).
C7_FailureLeavesJar ==
  \A r \in Reqs :
    CallbackDone(r) =>
      LET resp == Unwrap(req[r].response)
      IN /\ (resp.redirect = "./failed") <=> ~IsSome(req[r].result)
         /\ ~IsSome(req[r].result) =>
              /\ resp.jar = RequestJar(req[r].cookie)
              /\ resp.jar.delta = {}
              /\ from_jar(resp.jar) = req[r].auth
\* A callback with a Pending cookie of a stored session that failed.
C7_Witness ==
  \E r \in Reqs :
    /\ CallbackDone(r) /\ IsSome(req[r].found) /\ ~IsSome(req[r].result)
    /\ IsPending(from_jar(Unwrap(req[r].response).jar))

\* C8 as stated: every Authenticated(token) constructed, written by callback
\* or decoded from a request cookie, carries a token that passed the
\* hash-binding verification against its ID token.
C8_AuthenticatedAlwaysHashVerified ==
  \A r \in Reqs :
    IsCallback(r) =>
      /\ IsAuthenticated(req[r].auth) => req[r].auth[2] \in verified
      /\ (IsSome(req[r].response) /\ SetsAuthCookie(Unwrap(req[r].response))) =>
           /\ IsAuthenticated(from_jar(Unwrap(req[r].response).jar))
           /\ from_jar(Unwrap(req[r].response).jar)[2] \in verified
\* C8 as amended: the Authenticated(token) callback writes carries the access
\* token of a successful authenticate, whose hash binding was verified
\* whenever the ID token carried an access-token hash (a token whose ID token
\* carried none is accepted unverified); a decoded Authenticated carries
\* whatever token the cookie held.
C8_WrittenTokenBoundWhenHashPresent ==
  \A r \in Reqs :
    (IsCallback(r) /\ IsSome(req[r].response)
       /\ SetsAuthCookie(Unwrap(req[r].response))) =>
      LET written == from_jar(Unwrap(req[r].response).jar)
      IN /\ IsSome(req[r].result)
         /\ written = Authenticated(Unwrap(req[r].result).access_token)
         /\ \/ req[r].facts.hash = "match" /\ written[2] \in verified
            \/ req[r].facts.hash = "absent"
\* A callback that wrote Authenticated for a token whose hash matched.
C8_Witness ==
  \E r \in Reqs :
    /\ CallbackDone(r) /\ IsSome(req[r].result) /\ req[r].facts.hash = "match"
    /\ SetsAuthCookie(Unwrap(req[r].response))

\* ------------------------------------------------------------ claims: robustness, codec, locks
\* C11: trust re-validation is never fatal: for every introspection outcome
\* introspect completes with Some or None instead of aborting, and no outcome
\* seen by one request leaves the shared cache in a state in which introspect
\* calls of other requests abort.
C11_IntrospectNeverAborts ==
  /\ ~cachePoisoned
  /\ \A r \in Reqs : req[r].kind = "extract" => req[r].pc # "panicked"

\* The states AuthState has, and the cookie values that encode a state with
\* a payload.
AuthStates ==
  {Pending(s) : s \in SessionStrings} \cup {Authenticated(t) : t \in Tokens}
    \cup {Unauthenticated}
PayloadEncodings == {to_string(st) : st \in AuthStates \ {Unauthenticated}}

\* C12: decoding the auth cookie is total and fail-closed: a missing cookie,
\* a value that is not valid JSON and a value with an unrecognized tag or
\* shape all decode to Unauthenticated; the only decoded states are Pending,
\* Authenticated and Unauthenticated.
C12_DecodeTotalFailClosed ==
  \A r \in Reqs :
    req[r].kind = "decode" =>
      /\ req[r].auth \in AuthStates
      /\ (req[r].cookie = None \/ Unwrap(req[r].cookie) \notin PayloadEncodings)
           => req[r].auth = Unauthenticated
      /\ (req[r].cookie # None /\ Unwrap(req[r].cookie) \in PayloadEncodings)
           => to_string(req[r].auth) = Unwrap(req[r].cookie)
\* A request whose cookie carried an unknown tag with a payload.
C12_Witness ==
  \E r \in Reqs :
    /\ req[r].kind = "decode" /\ req[r].cookie = Some(<<"{", "Admin", ":", "t1", "}">>)
    /\ req[r].auth = Unauthenticated

\* What the client sees of a callback response: the redirect target and the
\* cookies the response sets (the jar's delta).
SetCookies(resp) ==
  [n \in resp.jar.delta |->
     IF n \in DOMAIN resp.jar.cookies THEN resp.jar.cookies[n] ELSE "removed"]
ClientVisible(resp) == [redirect |-> resp.redirect, set_cookies |-> SetCookies(resp)]
\* Why a finished callback failed.
FailureReason(r) ==
  IF ~IsPending(req[r].auth) THEN "cookie not pending"
  ELSE IF req[r].found = None THEN "unknown or used session"
  ELSE IF ~CsrfEqual(r) THEN "csrf mismatch"
  ELSE IF req[r].facts.exchange = "no" THEN "exchange failed"
  ELSE IF req[r].facts.id_token = "no" THEN "no id token"
  ELSE IF req[r].facts.id_valid = "no" THEN "id token invalid"
  ELSE IF req[r].facts.hash = "no" THEN "hash mismatch"
  ELSE IF req[r].facts.userinfo = "no" THEN "user info failed"
  ELSE IF req[r].facts.groups = "no" THEN "missing group"
  ELSE "none"
FailedCallback(r) == CallbackDone(r) /\ ~IsSome(req[r].result)

\* C13: any two callbacks that fail, for whatever reasons, have the same
\* redirect target and set the same cookies, so the client cannot tell the
\* failure reason.
C13_FailuresIndistinguishable ==
  \A r1, r2 \in Reqs :
    (FailedCallback(r1) /\ FailedCallback(r2)) =>
      /\ FailureReason(r1) # "none"
      /\ ClientVisible(Unwrap(req[r1].response)) = ClientVisible(Unwrap(req[r2].response))
      /\ Unwrap(req[r1].response).redirect = "./failed"
\* Two failed callbacks, one with a cookie that is not Pending, the other
\* rejected for a missing group after all provider requests.
C13_Witness ==
  \E r1, r2 \in Reqs :
    /\ FailedCallback(r1) /\ FailedCallback(r2)
    /\ FailureReason(r1) = "cookie not pending"
    /\ FailureReason(r2) = "missing group"

\* The whole server: protected routes, logins and callbacks interleaved, the
\* clock standing still, one token and one user at the provider.
ServerCookieInputs ==
  {None, Some(to_string(Authenticated("t1")))}
    \cup {Some(to_string(Pending(s))) : s \in SessionStrings}
ServerIntrospectionResponses ==
  {resp \in IntrospectionResponses :
     resp.ok => /\ resp.sub = Some("u1") /\ resp.username = Some("alice")
                /\ resp.exp \in {None, Some(MaxTime)}}
ServerExchangeResponses ==
  {resp \in ExchangeResponses :
     resp.ok => /\ resp.access_token = "t1" /\ IsSome(resp.id_token)
                /\ Unwrap(resp.id_token).sig_ok /\ Unwrap(resp.id_token).sub = "u1"
                /\ Unwrap(resp.id_token).at_hash = None
                /\ Unwrap(resp.id_token).alg = "RS256"}
ServerUserInfoResponses ==
  {resp \in UserInfoResponses : resp.ok => resp.sub = "u1" /\ resp.groups = Groups}
ServerInit == TrustInit
ServerNext ==
  \/ \E r \in Reqs, v \in ServerCookieInputs : ExtractStart(r, v)
  \/ \E r \in Reqs : IntrospectCheck(r)
  \/ \E r \in Reqs, resp \in ServerIntrospectionResponses : IntrospectRespond(r, resp)
  \/ \E r \in Reqs : Login(r, None, None)
  \/ \E r \in Reqs, v \in ServerCookieInputs, csrf_state \in Csrfs :
        CallbackStart(r, v, csrf_state)
  \/ \E r \in Reqs, resp \in ServerExchangeResponses : ExchangeRespond(r, resp)
  \/ \E r \in Reqs, resp \in ServerUserInfoResponses : UserInfoRespond(r, resp)
  \/ \E r \in Reqs : Finish(r)
SpecServer == ServerInit /\ [][ServerNext]_vars

\* The whole server with every lock operation a step of its own: between
\* lock(), read() or write() returning and the guard being dropped, the other
\* requests run.
NotPendingServerInputs ==
  {v \in ServerCookieInputs : ~IsPending(from_jar(RequestJar(v)))}
LocksInit == TrustInit
LocksNext ==
  \/ \E r \in Reqs, v \in ServerCookieInputs : ExtractStart(r, v)
  \/ \E r \in Reqs : IntrospectReadLock(r)
  \/ \E r \in Reqs : IntrospectRead(r)
  \/ \E r \in Reqs : IntrospectRespond(r, [ok |-> FALSE])
  \/ \E r \in Reqs, resp \in ServerIntrospectionResponses : IntrospectWriteLock(r, resp)
  \/ \E r \in Reqs : IntrospectWrite(r)
  \/ \E r \in Reqs : LoginLock(r, None, None)
  \/ \E r \in Reqs : LoginInsert(r)
  \/ \E r \in Reqs, v \in NotPendingServerInputs, csrf_state \in Csrfs :
        CallbackStart(r, v, csrf_state)
  \/ \E r \in Reqs, v \in ServerCookieInputs, csrf_state \in Csrfs :
        CallbackLock(r, v, csrf_state)
  \/ \E r \in Reqs : CallbackRemove(r)
  \/ \E r \in Reqs, resp \in ServerExchangeResponses : ExchangeRespond(r, resp)
  \/ \E r \in Reqs, resp \in ServerUserInfoResponses : UserInfoRespond(r, resp)
  \/ \E r \in Reqs : Finish(r)
SpecLocks == LocksInit /\ [][LocksNext]_vars

\* A provider request of r is outstanding.
Awaiting(r) ==
  /\ req[r].kind \in {"extract", "callback"}
  /\ req[r].pc \in {"await", "await_exchange", "await_userinfo"}

\* C14: no request holds the pending-store mutex or the cache read or write
\* lock while one of its provider requests (token exchange, user-info,
\* introspection) is outstanding, so the lock, read and write calls of
\* create_session, authenticate and introspect in any other request return.
C14_NoLockAcrossProviderCall ==
  \A r \in Reqs :
    Awaiting(r) =>
      /\ Holds(r) = {}
      /\ \A o \in Reqs \ {r} : MutexFree(o) /\ CacheReadable(o) /\ CacheWritable(o)
\* While the user-info request of one callback is outstanding, a second
\* callback has taken the Mutex and a further login is pending in the store.
C14_Witness ==
  \E r1, r2 \in Reqs :
    /\ req[r1].kind = "callback" /\ req[r1].pc = "await_userinfo"
    /\ req[r2].kind = "callback" /\ req[r2].pc = "locked" /\ "state" \in Holds(r2)
    /\ DOMAIN state # {}

\* The cookie codec alone: a state is written into the jar of a request and
\* read back, from the jar itself and from the Cookie header a client sends
\* with the value it was given.
RoundTrip(r, st, v) ==
  /\ req[r].kind = "idle"
  /\ LET written == write_to_jar(st, RequestJar(v))
     IN req' = [req EXCEPT ![r] =
          [kind |-> "codec", pc |-> "done", cookie |-> v, input |-> st,
           written |-> written,
           decoded |-> from_jar(written),
           resent |-> from_jar(RequestJar(Some(written.cookies[AUTH_COOKIE].value)))]]
  /\ UNCHANGED <<answered, main, browser, now, state, issued, introspection_cache, cachePoisoned, config,
                 obtained, verified>>
\* A handler reads the state of a request: AuthState::from_jar(&jar).
Decode(r, v) ==
  /\ req[r].kind = "idle"
  /\ req' = [req EXCEPT ![r] =
       [kind |-> "decode", pc |-> "done", cookie |-> v,
        auth |-> from_jar(RequestJar(v))]]
  /\ UNCHANGED <<answered, main, browser, now, state, issued, introspection_cache,
                 cachePoisoned, config, obtained, verified>>
CodecInit == TrustInit
CodecNext ==
  \/ \E r \in Reqs, st \in AuthStates, v \in AuthCookieInputs : RoundTrip(r, st, v)
  \/ \E r \in Reqs, v \in AuthCookieInputs : Decode(r, v)
  \/ \E r \in Reqs : Finish(r)
SpecCodec == CodecInit /\ [][CodecNext]_vars

\* C15: cookie round trip: decoding the cookie written by write_to_jar(s)
\* with from_jar yields s, whatever auth cookie the jar held before:
\* Authenticated(token) the same token, Pending(id) the same session id,
\* Unauthenticated yields Unauthenticated.
C15_CookieRoundTrip ==
  \A r \in Reqs :
    req[r].kind = "codec" =>
      /\ req[r].decoded = req[r].input
      /\ req[r].resent = req[r].input
      /\ req[r].written.delta = {AUTH_COOKIE}
\* An Authenticated state written over a Pending cookie and read back.
C15_Witness ==
  \E r \in Reqs :
    /\ req[r].kind = "codec" /\ req[r].input = Authenticated("t2")
    /\ req[r].decoded = Authenticated("t2")
    /\ req[r].cookie = Some(to_string(Pending("s1")))
    /\ \E r2 \in Reqs : req[r2].kind = "codec" /\ req[r2].input = Unauthenticated

\* The requests whose response carries a cookie jar, and the auth cookie the
\* response sets.
HasResponseJar(r) ==
  \/ req[r].kind \in {"login", "success"}
  \/ req[r].kind = "callback" /\ IsSome(req[r].response)
ResponseJar(r) ==
  IF req[r].kind = "callback" THEN Unwrap(req[r].response).jar ELSE req[r].response.jar
EmitsAuth(r) == HasResponseJar(r) /\ AUTH_COOKIE \in ResponseJar(r).delta
EmittedAuth(r) == ResponseJar(r).cookies[AUTH_COOKIE]
PendingLifetime == DurationMinute * PendingMinutes

\* C16: login emits Pending with exactly the session id just created, Lax and
\* a short lifetime; a successful callback emits Authenticated with exactly
\* the access token authenticate returned, Strict, HttpOnly and a longer
\* lifetime; Unauthenticated is written with zero lifetime; no other response
\* emits an Authenticated cookie.
C16_SessionCookieTransitions ==
  /\ \A r \in Reqs :
       req[r].kind = "login" =>
         /\ EmitsAuth(r)
         /\ EmittedAuth(r).value = to_string(Pending(req[r].session))
         /\ req[r].session \in {SessionNames[i] : i \in 1..issued}
         /\ EmittedAuth(r).same_site = "Lax"
         /\ EmittedAuth(r).max_age = Some(PendingLifetime)
  /\ \A r \in Reqs :
       (CallbackDone(r) /\ IsSome(req[r].result)) =>
         /\ EmitsAuth(r)
         /\ EmittedAuth(r).value =
              to_string(Authenticated(Unwrap(req[r].result).access_token))
         /\ EmittedAuth(r).same_site = "Strict" /\ EmittedAuth(r).http_only
         /\ IsSome(EmittedAuth(r).max_age)
         /\ Unwrap(EmittedAuth(r).max_age) > PendingLifetime
  /\ \A v \in AuthCookieInputs :
       write_to_jar(Unauthenticated, RequestJar(v)).cookies[AUTH_COOKIE].max_age
         = Some(DurationZero)
  /\ \A r \in Reqs :
       (EmitsAuth(r) /\ IsAuthenticated(from_jar(ResponseJar(r)))) =>
         CallbackDone(r) /\ IsSome(req[r].result)
\* A login response and the response of a successful callback side by side.
C16_Witness ==
  \E r1, r2 \in Reqs :
    /\ req[r1].kind = "login" /\ EmitsAuth(r1)
    /\ CallbackDone(r2) /\ IsSome(req[r2].result) /\ EmitsAuth(r2)

\* ------------------------------------------------------------ user agent
\* One user agent walks through the login: it sends the cookies it holds and
\* stores the Set-Cookie headers of each response (RFC 6265, section 5.3).
\* CookieJar::remove(Cookie::named(name)): the removal cookie of the delta has
\* the name, path and domain of the cookie passed in, an empty value and
\* max-age zero; Cookie::named sets no path.
RemovalCookie ==
  [value |-> <<>>, max_age |-> Some(DurationZero), same_site |-> "unset",
   http_only |-> FALSE, secure |-> FALSE, path |-> "unset"]
\* The Set-Cookie headers of a response: the jar's delta.
SetCookieHeaders(jar) ==
  [n \in jar.delta |-> IF JarHas(jar, n) THEN jar.cookies[n] ELSE RemovalCookie]
\* Router::new().nest("/auth", auth::router()): the handlers answer at
\* /auth/login, /auth/callback, /auth/success, whose default cookie path is
\* the mount path.
MountPath == "/auth"
\* The path a user agent stores a cookie under: its Path attribute, or the
\* default path of the request when the header has none.
StoredPath(cookie) == IF cookie.path = "unset" THEN MountPath ELSE cookie.path
\* The store after the headers of a response: a cookie replaces the one of
\* the same name and path; max-age zero evicts it.
BrowserAfter(store, headers) ==
  LET keys == {<<n, StoredPath(headers[n])>> : n \in DOMAIN headers}
      evicted == {k \in keys : headers[k[1]].max_age = Some(DurationZero)}
  IN [k \in (DOMAIN store \cup keys) \ evicted |->
        IF k \in keys THEN headers[k[1]].value ELSE store[k]]
\* The value of cookie `name` in the Cookie header of a request under the
\* mount path (both "/" and the mount path match it).
BrowserSends(store, name) ==
  IF \E k \in DOMAIN store : k[1] = name
  THEN Some(store[CHOOSE k \in DOMAIN store : k[1] = name])
  ELSE None

NoRequestInFlight == \A r \in Reqs : req[r].kind = "idle"
\* The user agent navigates to /auth/login, is sent back to /auth/callback by
\* the provider, lands on /auth/success.
VisitLogin(r, header) ==
  NoRequestInFlight /\ Login(r, BrowserSends(browser, AUTH_COOKIE), header)
VisitCallback(r, csrf_state) ==
  NoRequestInFlight /\ CallbackStart(r, BrowserSends(browser, AUTH_COOKIE), csrf_state)
VisitSuccess(r) ==
  NoRequestInFlight /\ Success(r, BrowserSends(browser, REDIRECT_COOKIE))
\* The response reaches the user agent.
Receive(r) ==
  /\ req[r].kind \in {"login", "callback", "success"} /\ req[r].pc = "done"
  /\ browser' = BrowserAfter(browser, SetCookieHeaders(ResponseJar(r)))
  /\ req' = [req EXCEPT ![r] = Idle]
  /\ UNCHANGED <<answered, main, now, state, issued, introspection_cache, cachePoisoned, config,
                 obtained, verified>>

BrowserInit == TrustInit
BrowserNext ==
  \/ \E r \in Reqs, h \in RefererInputs : VisitLogin(r, h)
  \/ \E r \in Reqs, csrf_state \in Csrfs : VisitCallback(r, csrf_state)
  \/ \E r \in Reqs, resp \in ServerExchangeResponses : ExchangeRespond(r, resp)
  \/ \E r \in Reqs, resp \in ServerUserInfoResponses : UserInfoRespond(r, resp)
  \/ \E r \in Reqs : VisitSuccess(r)
  \/ \E r \in Reqs : Receive(r)
SpecBrowser == BrowserInit /\ [][BrowserNext]_vars

\* A success landing that carried the redirect cookie and sent the page to v.
Redirected(rec) ==
  rec.kind = "success" /\ Len(rec.response.body) > 1
\* C17: a login without Referer adds no redirect cookie; a login with Referer
\* v sets the redirect cookie to exactly v; the first success landing that
\* carries the cookie redirects to v and clears the cookie, so that the user
\* agent sends no redirect cookie with a following success landing.
C17_RedirectOnce ==
  [][\A r \in Reqs :
       /\ (req[r].kind = "idle" /\ req'[r].kind = "login") =>
            LET jar == req'[r].response.jar
            IN IF req'[r].referrer = None
               THEN REDIRECT_COOKIE \notin jar.delta
               ELSE /\ REDIRECT_COOKIE \in jar.delta
                    /\ jar.cookies[REDIRECT_COOKIE].value = req'[r].referrer
       /\ (req[r].kind = "idle" /\ req'[r].kind = "success") =>
            (Redirected(req'[r]) <=> IsSome(BrowserSends(browser, REDIRECT_COOKIE)))
       /\ (Redirected(req[r]) /\ req'[r].kind = "idle") =>
            BrowserSends(browser', REDIRECT_COOKIE) = None]_vars

\* ------------------------------------------------------------ startup steps
\* AuthClient::new(..).await.unwrap() in main: a DiscoveryError panics main.
MainAfter(m, result) ==
  IF IsOk(result) THEN [m EXCEPT !.pc = "serving", !.auth_client = Some(result)]
  ELSE [m EXCEPT !.pc = "panicked", !.auth_client = Some(result)]

\* OAuthProviderMetadata::discover_async up to the request: the well-known
\* URL is joined to the issuer, the GET is sent.
DiscoverOAuth ==
  /\ main.pc = "start"
  /\ LET discovery_url == join(main.issuer_url, OAUTH_CONFIG_URL_SUFFIX)
     IN main' = IF ~IsOk(discovery_url) THEN MainAfter(main, Err("UrlParse"))
                ELSE [main EXCEPT !.pc = "await_oauth", !.sent.oauth = @ + 1,
                                  !.discovery_url = Some(discovery_url[2])]
  /\ UNCHANGED <<answered, now, state, issued, introspection_cache, cachePoisoned, config, req,
                 obtained, verified, browser>>
\* The answer to the OAuth metadata request; on Ok the OIDC discovery request
\* is sent.
OAuthRespond(http) ==
  /\ main.pc = "await_oauth"
  /\ LET result == discovery_response(main.issuer_url, http)
         m == [main EXCEPT !.docs.oauth = DocKind(main.issuer_url, http)]
     IN main' = IF ~IsOk(result) THEN MainAfter(m, Err(result[2]))
                ELSE [m EXCEPT !.pc = "await_oidc", !.sent.oidc = @ + 1,
                               !.oauth_metadata = Some(result[2])]
  /\ UNCHANGED <<answered, now, state, issued, introspection_cache, cachePoisoned, config, req,
                 obtained, verified, browser>>
\* The answer to the OIDC discovery request; on Ok the library fetches the
\* provider's key set.
OidcRespond(http) ==
  /\ main.pc = "await_oidc"
  /\ LET result == oidc_discovery_response(main.issuer_url, http)
         m == [main EXCEPT !.docs.oidc = DocKind(main.issuer_url, http)]
     IN /\ main' = IF ~IsOk(result) THEN MainAfter(m, Err(result[2]))
                   ELSE [m EXCEPT !.pc = "await_jwks", !.sent.jwks = @ + 1]
        /\ config' = IF IsOk(result)
                     THEN [config EXCEPT !.userinfo_endpoint = result[2].userinfo_endpoint]
                     ELSE config
  /\ UNCHANGED <<answered, now, state, issued, introspection_cache, cachePoisoned, req,
                 obtained, verified, browser>>
\* The answer to the key set request; on Ok AuthClient::new builds the client
\* and main goes on to serve.
JwksRespond(http) ==
  /\ main.pc = "await_jwks"
  /\ LET result == fetch_async(http)
     IN main' = IF IsOk(result)
                THEN MainAfter(main, Ok(AuthClientOf(Unwrap(main.oauth_metadata))))
                ELSE MainAfter(main, Err(result[2]))
  /\ UNCHANGED <<answered, now, state, issued, introspection_cache, cachePoisoned, config, req,
                 obtained, verified, browser>>

\* The process from its start: discovery, then the landing pages are served.
StartupInit ==
  /\ now = 0 /\ state = <<>> /\ issued = 0
  /\ introspection_cache = <<>> /\ cachePoisoned = FALSE
  /\ config = [required_groups |-> {}, userinfo_endpoint |-> FALSE]
  /\ req = [r \in Reqs |-> Idle]
  /\ obtained = [s \in SessionStrings |-> 0] /\ verified = {}
  /\ browser = <<>>
  /\ main \in {MainStart(i) : i \in Issuers}
  /\ answered = <<>>
StartupNext ==
  \/ DiscoverOAuth
  \/ \E http \in HttpResponses(OAuthBodies) : OAuthRespond(http)
  \/ \E http \in HttpResponses(OidcBodies) : OidcRespond(http)
  \/ \E http \in HttpResponses(JwksBodies) : JwksRespond(http)
  \/ \E r \in Reqs, c \in RedirectCookieInputs : Success(r, c)
  \/ \E r \in Reqs : Failed(r)
  \/ \E r \in Reqs : Finish(r)
SpecStartup == StartupInit /\ [][StartupNext]_vars

\* The DiscoveryError variant of each kind of bad answer.
ErrorOf(kind) ==
  CASE kind = "transport" -> "Request" [] kind = "status" -> "Response"
    [] kind = "malformed" -> "Parse" [] kind = "mismatch" -> "Validation"
BadDoc(kind) == kind \notin {"none", "good"}

\* C18: AuthClient::new yields a client only if both discovery documents came
\* with status 200, parsed and carry exactly the configured issuer; a
\* transport error, a non-200 status, a malformed body or an issuer mismatch
\* in either document yields the DiscoveryError and no client; no document is
\* requested a second time; without a client the process serves no request.
C18_ClientOnlyAfterValidDiscovery ==
  /\ (IsSome(main.auth_client) /\ IsOk(Unwrap(main.auth_client))) =>
       /\ main.docs = [oauth |-> "good", oidc |-> "good"]
       /\ Unwrap(main.oauth_metadata).issuer = main.issuer_url
       /\ main.sent.oauth = 1 /\ main.sent.oidc = 1
  /\ BadDoc(main.docs.oauth) =>
       /\ main.pc = "panicked"
       /\ main.auth_client = Some(Err(ErrorOf(main.docs.oauth)))
       /\ main.sent = [oauth |-> 1, oidc |-> 0, jwks |-> 0]
  /\ BadDoc(main.docs.oidc) =>
       /\ main.pc = "panicked"
       /\ main.auth_client = Some(Err(ErrorOf(main.docs.oidc)))
       /\ main.sent = [oauth |-> 1, oidc |-> 1, jwks |-> 0]
  /\ \A d \in DOMAIN main.sent : main.sent[d] <= 1
  /\ (Serving <=> (IsSome(main.auth_client) /\ IsOk(Unwrap(main.auth_client))))
  /\ ~Serving => \A r \in Reqs : req[r].kind = "idle"
\* The OAuth metadata was good, the OIDC discovery document names the issuer
\* with a trailing slash the configured URL does not have: main has panicked.
C18_Witness ==
  /\ main.pc = "panicked" /\ main.issuer_url = <<"https:", "//", "idp.example">>
  /\ main.docs = [oauth |-> "good", oidc |-> "mismatch"]
  /\ main.auth_client = Some(Err("Validation"))

\* C19: authenticate removes the pending entry of its session id before it
\* issues a provider request and before its caller sees a result: no
\* token-exchange or user-info request is outstanding for a session id that is
\* still in the store, and the entry is gone on every outcome.
C19_EntryRemovedFirst ==
  \A r \in Reqs :
    (IsCallback(r) /\ IsPending(req[r].auth)) =>
      /\ IsSome(req[r].found) => req[r].auth[2] \notin DOMAIN state
      /\ (req[r].sent.exchange > 0 \/ req[r].sent.userinfo > 0) =>
           IsSome(req[r].found) /\ req[r].auth[2] \notin DOMAIN state
\* A user-info request is outstanding for a consumed session while the entry
\* of another login is still pending.
C19_Witness ==
  \E r \in Reqs :
    /\ IsCallback(r) /\ req[r].pc = "await_userinfo"
    /\ obtained[req[r].auth[2]] = 1
    /\ DOMAIN state # {} /\ req[r].auth[2] \notin DOMAIN state

\* The ids create_session has produced, and those an authenticate call has
\* taken out of the store.
CreatedIds == {SessionNames[i] : i \in 1..issued}
ConsumedIds == {s \in SessionStrings : obtained[s] > 0}

\* C20: the ids in the pending-session store are the ids created by
\* create_session minus the ids authenticate was called with; create_session
\* adds exactly one new entry and changes no other, introspect never touches
\* the store, and an entry disappears only in an authenticate call on its id,
\* so the entry of an abandoned login stays.
C20_StoreIsCreatedMinusConsumed ==
  [][/\ DOMAIN state' = CreatedIds' \ ConsumedIds'
     /\ issued' # issued =>
          LET new == SessionNames[issued']
          IN /\ new \notin DOMAIN state
             /\ DOMAIN state' = DOMAIN state \cup {new}
             /\ \A k \in DOMAIN state : state'[k] = state[k]
     /\ \A r \in Reqs :
          (req[r].kind = "extract" /\ req'[r] # req[r]) => state' = state
     /\ \A s \in DOMAIN state \ DOMAIN state' :
          \E r \in Reqs : /\ req[r].kind = "idle" /\ req'[r].kind = "callback"
                          /\ req'[r].auth = Pending(s) /\ IsSome(req'[r].found)
     /\ \A s \in DOMAIN state \cap DOMAIN state' : state'[s] = state[s]]_vars
\* Every login so far was abandoned and its entry is still in the store,
\* while an introspection request is outstanding.
C20_Witness ==
  /\ issued = MaxSessions /\ DOMAIN state = CreatedIds /\ ConsumedIds = {}
  /\ \E r \in Reqs : req[r].kind = "extract" /\ req[r].pc = "await"

\* ------------------------------------------------------------ claims: frames
\* The step in which the introspection request of r is answered.
RespondStep(r) ==
  req[r].kind = "extract" /\ req[r].pc = "await" /\ req'[r] # req[r]

\* C21: the key set of the token trust cache never shrinks; an inactive
\* response, an active response without subject or username and a transport
\* failure leave the cache exactly as it was; an entry changes only by being
\* inserted or replaced as a whole, under the token of the call, on an active
\* response with subject and username.
C21_CacheOnlyGrowsOnSuccess ==
  [][/\ DOMAIN introspection_cache \subseteq DOMAIN introspection_cache'
     /\ \A r \in Reqs :
          (RespondStep(r) /\ req'[r].call.resp \in {"inactive", "incomplete", "error"})
            => introspection_cache' = introspection_cache
     /\ introspection_cache' # introspection_cache =>
          \E r \in Reqs :
            /\ RespondStep(r) /\ req'[r].call.resp = "active"
            /\ TokenOf(r) \in DOMAIN introspection_cache'
            /\ introspection_cache' =
                 CacheInsert(introspection_cache, TokenOf(r),
                             introspection_cache'[TokenOf(r)])]_vars
\* A call was answered inactive while the cache held an entry of its token,
\* and the entry of another token as well.
C21_Witness ==
  \E r \in Reqs :
    /\ req[r].kind = "extract" /\ req[r].call.resp = "inactive"
    /\ LET decoded == from_jar(RequestJar(req[r].cookie))
       IN decoded[2] \in DOMAIN introspection_cache
    /\ DOMAIN introspection_cache = Tokens


\* C22: under any interleaving of concurrent introspect calls, every cache
\* entry stored for a token equals the (subject, username, expiry) of one
\* single active introspection response that the provider gave for that same
\* token: the entry is never stored under another token's key and never
\* combines fields of two responses, and when two calls for the same token
\* race, the entry is that of the response written last.
C22_EntryIsOneResponse ==
  /\ DOMAIN introspection_cache = DOMAIN answered
  /\ \A k \in DOMAIN introspection_cache :
       LET resp == answered[k]
       IN /\ resp.ok /\ resp.active
          /\ IsSome(resp.sub) /\ IsSome(resp.username) /\ IsSome(resp.exp)
          /\ introspection_cache[k].subject = Unwrap(resp.sub)
          /\ introspection_cache[k].username = Unwrap(resp.username)
          /\ introspection_cache[k].expiry = Unwrap(resp.exp)
\* Two calls for the same token raced: both missed the cache, both were
\* answered with different users, and the entry is that of the later write.
C22_Witness ==
  /\ now = 0
  /\ \E r1, r2 \in Reqs :
       /\ r1 # r2
       /\ req[r1].kind = "extract" /\ req[r2].kind = "extract"
       /\ req[r1].call.resp = "active" /\ req[r2].call.resp = "active"
       /\ req[r1].call.returned /\ req[r2].call.returned
       /\ TokenOf(r1) = TokenOf(r2)
       /\ req[r1].call.result # req[r2].call.result
       /\ Some(introspection_cache[TokenOf(r2)]) = req[r2].call.result
       /\ Unwrap(answered[TokenOf(r2)].sub) # Unwrap(req[r1].call.result).subject
       /\ DOMAIN introspection_cache = Tokens


\* The auth cookies that are not the encoding of a Pending state: none at
\* all, a malformed text, Unauthenticated, Authenticated.
NotPendingCookies ==
  {None} \cup {Some(v) : v \in Malformed}
    \cup {Some(to_string(Unauthenticated))}
    \cup {Some(to_string(Authenticated(t))) : t \in Tokens}
\* The step in which the callback handler receives a request in slot r.
CallbackStep(r) == req[r].kind = "idle" /\ req'[r].kind = "callback"

\* C23: a callback request whose auth cookie does not decode to Pending
\* (missing, malformed, Unauthenticated or Authenticated) never calls
\* authenticate: the pending-session store is unchanged, no provider request
\* is issued, no cookie is changed, and the response redirects to the failure
\* page, whatever code and state the query carries.
C23_NonPendingCallbackIsInert ==
  [][\A r \in Reqs :
       (CallbackStep(r) /\ req'[r].cookie \in NotPendingCookies) =>
         /\ req'[r].auth[1] # "Pending"
         /\ state' = state /\ obtained' = obtained /\ verified' = verified
         /\ req'[r].found = None /\ req'[r].holds = {}
         /\ req'[r].sent = [exchange |-> 0, userinfo |-> 0]
         /\ req'[r].pc = "done" /\ req'[r].result = None
         /\ LET resp == Unwrap(req'[r].response)
            IN /\ resp.redirect = "./failed"
               /\ resp.jar = RequestJar(req'[r].cookie)
               /\ resp.jar.delta = {}]_vars
\* Callbacks with an Authenticated and with a malformed cookie were answered
\* while a login was pending in the store.
C23_Witness ==
  /\ DOMAIN state # {}
  /\ \E r1, r2 \in Reqs :
       /\ CallbackDone(r1) /\ CallbackDone(r2)
       /\ req[r1].cookie \in {Some(to_string(Authenticated(t))) : t \in Tokens}
       /\ req[r2].cookie \in {Some(v) : v \in Malformed}

====
